---- MODULE Spec2Model ----
(***************************************************************************)
(* Model of the two Mycelica import scripts:                               *)
(*   scripts/import_conversations.py  (pairing variant: pair_messages and  *)
(*                                     main, abort-if-imported policy)     *)
(*   scripts/import_test_data.py      (flat variant: import_conversations, *)
(*                                     full-replace policy)                *)
(*                                                                         *)
(* Python values: an optional dictionary key is a sequence that is empty   *)
(* (key absent / None) or holds the value (<<v>>).  A sqlite connection is *)
(* two copies of each table: what the connection sees (nodes, edges) and   *)
(* what is committed on disk (disk_nodes, disk_edges).  An uncaught        *)
(* exception ends the process; the uncommitted part is then lost and the   *)
(* database is what the disk copy holds.                                   *)
(*                                                                         *)
(* Fields no property below reads are left out of the rows: title, url,    *)
(* timestamps, emoji and the position of a conversation on the outer       *)
(* circle.  A child's position is kept as its angle on the inner circle,   *)
(* a fraction num/den of a full turn.                                      *)
(***************************************************************************)
EXTENDS Integers, Sequences, FiniteSets, TLC

VARIABLES
    variant,                 \* "pair" | "pairing" | "flat": which entry point runs
    pc,                      \* position of the running script
    messages,                \* pair_messages: its argument
    result,                  \* pair_messages: what the call produced
    conversations,           \* flat variant: the list passed to import_conversations
    nodes, edges,            \* tables as the open connection sees them
    disk_nodes, disk_edges,  \* tables as committed
    i,                       \* index of the conversation loop
    conv_id,                 \* pairing variant: id of the conversation in hand
    exchanges,               \* pairing variant: exchanges of the conversation in hand
    idx,                     \* pairing variant: index of the exchange loop
    conversations_imported, exchanges_imported, skipped,
    py_nodes, py_edges,      \* flat variant: the lists built before the inserts
    k,                       \* flat variant: cursor of executemany
    runs,                    \* number of the run in progress (1 = first run)
    start_nodes, start_edges \* the committed tables as the run in progress found them

vars == <<variant, pc, messages, result, conversations, nodes, edges, disk_nodes,
          disk_edges, i, conv_id, exchanges, idx, conversations_imported,
          exchanges_imported, skipped, py_nodes, py_edges, k, runs,
          start_nodes, start_edges>>

----------------------------------------------------------------------------
(* Bounds *)

MaxLen == 3          \* pair_messages: longest message list
MaxConvos == 51      \* pairing variant: most conversations in one input
MaxFlatConvos == 2   \* flat variant: most conversations in one input
MaxFlatMsgs == 3     \* flat variant: most messages in one input, all conversations
MaxRuns == 2         \* how many times a script is run in a row

----------------------------------------------------------------------------
(* Python helpers *)

NULL == <<>>

Some(v) == <<v>>

\* dict.get(key, default)
Get(opt, default) == IF opt = NULL THEN default ELSE opt[1]

\* max(n, 1)
Max1(n) == IF n > 1 THEN n ELSE 1

SeqsUpTo(S, n) == UNION {[1..m -> S] : m \in 0..n}

----------------------------------------------------------------------------
(* Raw messages of the pairing variant *)

Senders == {"human", "assistant", "system"}

Texts == {NULL, Some(""), Some("Q")}

Blocks == {[text |-> NULL], [text |-> Some("c")]}

Contents == {NULL, Some(<<>>)} \cup {Some(<<b>>) : b \in Blocks}

Messages == [sender : Senders, text : Texts, content : Contents]

\* line 35: msg.get('text', '') or msg.get('content', [{}])[0].get('text', '') or ''
\* [raised |-> TRUE] is the IndexError of [][0].
VisitedText(msg) ==
    LET flat == Get(msg.text, "")
        content == Get(msg.content, <<[text |-> NULL]>>)
    IN  IF flat # "" THEN [raised |-> FALSE, text |-> flat]
        ELSE IF content = <<>> THEN [raised |-> TRUE, text |-> ""]
        ELSE [raised |-> FALSE, text |-> Get(content[1].text, "")]

\* lines 45-50: the text of the assistant reply consumed by a human turn
AssistantText(assistant_msg) ==
    LET flat == Get(assistant_msg.text, "")
        content == Get(assistant_msg.content, <<>>)
    IN  IF flat = "" /\ content # <<>>
        THEN Get(content[1].text, "")
        ELSE flat

\* line 42
HasReply(msgs, n) == n + 1 <= Len(msgs) /\ msgs[n + 1].sender = "assistant"

\* lines 54-58 and 61-65: the content of an exchange
HumanContent(human_text, assistant_text) ==
    "Human: " \o human_text \o "\n\nAssistant: " \o assistant_text

OrphanContent(text) == "Assistant: " \o text

\* lines 32-67: the loop from cursor n (1-based) with the exchanges so far
RECURSIVE PairFrom(_, _, _)
PairFrom(msgs, n, acc) ==
    IF n > Len(msgs) THEN [raised |-> FALSE, exchanges |-> acc]
    ELSE LET t == VisitedText(msgs[n])
         IN  IF t.raised THEN [raised |-> TRUE, exchanges |-> acc]
             ELSE IF msgs[n].sender = "human"
             THEN IF HasReply(msgs, n)
                  THEN PairFrom(msgs, n + 2, Append(acc,
                           [content |-> HumanContent(t.text, AssistantText(msgs[n + 1]))]))
                  ELSE PairFrom(msgs, n + 1, Append(acc,
                           [content |-> HumanContent(t.text, "*No response*")]))
             ELSE PairFrom(msgs, n + 1, Append(acc, [content |-> OrphanContent(t.text)]))

pair_messages(msgs) == PairFrom(msgs, 1, <<>>)

----------------------------------------------------------------------------
(* pair_messages on its own: every message list up to MaxLen *)

NoResult == [raised |-> FALSE, exchanges |-> <<>>]

\* everything the database scripts use, at rest
Unused ==
    /\ conversations = <<>>
    /\ nodes = {} /\ edges = <<>> /\ disk_nodes = {} /\ disk_edges = <<>>
    /\ i = 0 /\ conv_id = "" /\ exchanges = <<>> /\ idx = 0
    /\ conversations_imported = 0 /\ exchanges_imported = 0 /\ skipped = 0
    /\ py_nodes = <<>> /\ py_edges = <<>> /\ k = 0 /\ runs = 0
    /\ start_nodes = {} /\ start_edges = <<>>

InitPair ==
    /\ variant = "pair"
    /\ pc = "call"
    /\ messages \in SeqsUpTo(Messages, MaxLen)
    /\ result = NoResult
    /\ Unused

\* exchanges = pair_messages(messages); an uncaught IndexError ends the caller
PairCall ==
    /\ variant = "pair"
    /\ pc = "call"
    /\ result' = pair_messages(messages)
    /\ pc' = IF result'.raised THEN "error" ELSE "returned"
    /\ UNCHANGED <<variant, messages, conversations, nodes, edges, disk_nodes,
                   disk_edges, i, conv_id, exchanges, idx, conversations_imported,
                   exchanges_imported, skipped, py_nodes, py_edges, k, runs,
                   start_nodes, start_edges>>

NextPair == PairCall

SpecPair == InitPair /\ [][NextPair]_vars

----------------------------------------------------------------------------
(* What the specification says of pairing, stated without the loop *)

\* message n is the assistant reply directly after a human message
Consumed(msgs, n) ==
    n > 1 /\ msgs[n].sender = "assistant" /\ msgs[n - 1].sender = "human"

\* the messages that start an exchange
Starts(msgs) == {n \in 1..Len(msgs) : ~Consumed(msgs, n)}

\* the j-th start, in message order
NthStart(msgs, j) ==
    CHOOSE n \in Starts(msgs) : Cardinality({m \in Starts(msgs) : m < n}) = j - 1

\* flat text, then the first content block, otherwise the empty string
CanonicalText(msg) ==
    IF Get(msg.text, "") # "" THEN msg.text[1]
    ELSE IF msg.content = NULL \/ msg.content[1] = <<>> THEN ""
    ELSE Get(msg.content[1][1].text, "")

ExpectedContent(msgs, n) ==
    IF msgs[n].sender = "human"
    THEN HumanContent(CanonicalText(msgs[n]),
                      IF n < Len(msgs) /\ Consumed(msgs, n + 1)
                      THEN CanonicalText(msgs[n + 1]) ELSE "*No response*")
    ELSE OrphanContent(CanonicalText(msgs[n]))

HumanCount(msgs) == Cardinality({n \in 1..Len(msgs) : msgs[n].sender = "human"})

Structured(msgs, exch) ==
    /\ Len(exch) = Cardinality(Starts(msgs))
    /\ \A j \in 1..Len(exch) : exch[j].content = ExpectedContent(msgs, NthStart(msgs, j))
    /\ HumanCount(msgs) <= Len(exch)
    /\ Len(exch) <= Len(msgs)

\* C1: for every finite message list pair_messages returns, in message order,
\* one exchange per human message (with the assistant reply directly after it,
\* if any) and one orphan exchange per other unconsumed message; so the count
\* lies between the number of human messages and the number of messages.
C1_PairingCoversEveryList ==
    (variant = "pair" /\ pc # "call") =>
        /\ pc = "returned"
        /\ Structured(messages, result.exchanges)

\* The same structure, for the calls that return.
PairingStructureWhenReturned ==
    (variant = "pair" /\ pc = "returned") => Structured(messages, result.exchanges)

\* C4: text extraction never fails the run: whatever the shape of a message
\* and however it is visited, its text is the flat text, else the text of the
\* first content block, else the empty string.
C4_ExtractionNeverFails ==
    (variant = "pair" /\ pc # "call") =>
        /\ ~result.raised
        /\ \A n \in 1..Len(messages) :
               (IF Consumed(messages, n)
                THEN AssistantText(messages[n])
                ELSE VisitedText(messages[n]).text) = CanonicalText(messages[n])

----------------------------------------------------------------------------
(* The nodes table *)

\* A row of nodes.  run is no column: it is the number of the run that
\* inserted the row (0: before the first run), which tells a row that
\* survived from an equal row inserted again.
Row(id, type, content, angle, is_item, level, parent_id, child_count, conversation_id, sequence_index, run) ==
    [id |-> id, type |-> type, content |-> content, angle |-> angle,
     is_item |-> is_item, level |-> level, parent_id |-> parent_id,
     child_count |-> child_count, conversation_id |-> conversation_id,
     sequence_index |-> sequence_index, run |-> run]

Ids(table) == {r.id : r \in table}

\* INSERT INTO nodes: id is the primary key
InsertRaises(table, row) == row.id \in Ids(table)

----------------------------------------------------------------------------
(* Pairing variant: main of import_conversations.py *)

CommitEvery == 50

\* line 79
MAX_EXCHANGES == NULL

\* lines 199 and 207: if MAX_EXCHANGES and exchanges_imported >= MAX_EXCHANGES
LimitReached(n) == MAX_EXCHANGES # NULL /\ n >= MAX_EXCHANGES[1]

\* the uuids of the conversations of an input.  The input is the list left by
\* the exclusion filter and the shuffle of lines 96-107, in any order, and two
\* of its conversations may carry the same uuid.
Uuids == {"a", "b"}

HumanMsg == [sender |-> "human", text |-> Some("Q"), content |-> NULL]

ReplyMsg ==
    [sender |-> "assistant", text |-> Some(""), content |-> Some(<<[text |-> Some("c")]>>)]

EmptyMsg == [sender |-> "assistant", text |-> Some(""), content |-> Some(<<>>)]

\* the message lists of the conversations of an input file: none, a question
\* alone, a question and its reply, a reply alone, a reply after a reply, and
\* a message with neither text nor content, as a reply and on its own
RunMessageLists ==
    { <<>>, <<HumanMsg>>, <<HumanMsg, ReplyMsg>>, <<ReplyMsg>>,
      <<HumanMsg, ReplyMsg, ReplyMsg>>, <<HumanMsg, EmptyMsg>>, <<EmptyMsg>> }

\* the conversations an input file may hold
RunConvs == [uuid : Uuids, chat_messages : RunMessageLists]

\* what the database may hold before the first run
OtherRow(id) ==
    Row(id, "thought", Some("old"), NULL, Some(1), NULL, NULL, 0, NULL, NULL, 0)

ImportedBefore ==
    { Row("p", "context", Some("1 exchanges"), NULL, Some(0), NULL, NULL, 1, NULL, NULL, 0),
      Row("p-ex-0", "thought", Some("old"), Some([num |-> 0, den |-> 1]), Some(1),
          NULL, NULL, 0, Some("p"), Some(0), 0) }

PairingPriors == { {}, {OtherRow("a")}, ImportedBefore }

\* the guard reading the wrong column
ExistingCount_WrongColumn(table) == Cardinality({r \in table : r.parent_id # NULL})

\* line 115: SELECT COUNT(*) FROM nodes WHERE conversation_id IS NOT NULL
ExistingCount(table) == Cardinality({r \in table : r.conversation_id # NULL})

\* lines 133-134: SELECT 1 FROM nodes WHERE id = ?
AlreadyExists(table, id) == \E r \in table : r.id = id

\* line 202
CommitDue(n) == (n + 1) % CommitEvery = 0

\* line 175: ex_angle, as a fraction of the full turn
ExchangeAngle(j, exchange_count) == [num |-> j, den |-> Max1(exchange_count)]

\* line 173
ExchangeId(cid, j) == cid \o "-ex-" \o ToString(j)

\* lines 151-166
ContainerRow(cid, exchange_count, run) ==
    Row(cid, "context", Some(ToString(exchange_count) \o " exchanges"), NULL, Some(0),
        NULL, NULL, exchange_count, NULL, NULL, run)

\* lines 179-194
ExchangeRow(cid, j, exchange, exchange_count, run) ==
    Row(ExchangeId(cid, j), "thought", Some(exchange.content),
        Some(ExchangeAngle(j, exchange_count)), Some(1), NULL, NULL, 0,
        Some(cid), Some(j), run)

pairOnly == <<messages, result>>

flatOnly == <<conversations, edges, disk_edges, py_nodes, py_edges, k, start_edges>>

\* lines 111-126: the guard against a second import
MainStart ==
    /\ variant = "pairing"
    /\ pc = "start"
    /\ pc' = IF ExistingCount(nodes) > 0 THEN "aborted" ELSE "loop"
    /\ conversations_imported' = 0
    /\ exchanges_imported' = 0
    /\ skipped' = 0
    /\ UNCHANGED <<variant, nodes, disk_nodes, i, conv_id, exchanges, idx, runs,
                   start_nodes>>
    /\ UNCHANGED <<pairOnly, flatOnly>>

\* lines 129-168: the next conversation of the input, up to its container
LoopHead ==
    /\ variant = "pairing"
    /\ pc = "loop"
    /\ i < MaxConvos
    /\ \E conv \in RunConvs :
         /\ conv_id' = conv.uuid
         /\ IF AlreadyExists(nodes, conv.uuid)
            THEN /\ skipped' = skipped + 1
                 /\ i' = i + 1
                 /\ UNCHANGED <<pc, nodes, exchanges, idx, conversations_imported>>
            ELSE LET paired == pair_messages(conv.chat_messages)
                     row == ContainerRow(conv.uuid, Len(paired.exchanges), runs)
                 IN  IF paired.raised \/ InsertRaises(nodes, row)
                     THEN /\ pc' = "error"
                          /\ UNCHANGED <<nodes, exchanges, idx, i, skipped,
                                         conversations_imported>>
                     ELSE /\ nodes' = nodes \cup {row}
                          /\ conversations_imported' = conversations_imported + 1
                          /\ exchanges' = paired.exchanges
                          /\ idx' = 0
                          /\ pc' = "exchanges"
                          /\ UNCHANGED <<i, skipped>>
    /\ UNCHANGED <<variant, disk_nodes, exchanges_imported, runs, start_nodes>>
    /\ UNCHANGED <<pairOnly, flatOnly>>

\* lines 172-200: one exchange node
InsertExchange ==
    /\ variant = "pairing"
    /\ pc = "exchanges"
    /\ idx < Len(exchanges)
    /\ LET row == ExchangeRow(conv_id, idx, exchanges[idx + 1], Len(exchanges), runs)
       IN  IF InsertRaises(nodes, row)
           THEN /\ pc' = "error"
                /\ UNCHANGED <<nodes, exchanges_imported, idx>>
           ELSE /\ nodes' = nodes \cup {row}
                /\ exchanges_imported' = exchanges_imported + 1
                /\ idx' = idx + 1
                /\ pc' = IF LimitReached(exchanges_imported') THEN "tail" ELSE "exchanges"
    /\ UNCHANGED <<variant, disk_nodes, i, conv_id, exchanges, conversations_imported,
                   skipped, runs, start_nodes>>
    /\ UNCHANGED <<pairOnly, flatOnly>>

\* lines 202-209: the end of a loop round that imported a conversation
LoopTail ==
    /\ variant = "pairing"
    /\ pc = "tail" \/ (pc = "exchanges" /\ idx = Len(exchanges))
    /\ disk_nodes' = IF CommitDue(i) THEN nodes ELSE disk_nodes
    /\ IF LimitReached(exchanges_imported)
       THEN /\ pc' = "commit"
            /\ i' = i
       ELSE /\ pc' = "loop"
            /\ i' = i + 1
    /\ UNCHANGED <<variant, nodes, conv_id, exchanges, idx, conversations_imported,
                   exchanges_imported, skipped, runs, start_nodes>>
    /\ UNCHANGED <<pairOnly, flatOnly>>

\* lines 211-212: the input is exhausted (or the limit was reached)
FinalCommit ==
    /\ variant = "pairing"
    /\ pc \in {"loop", "commit"}
    /\ disk_nodes' = nodes
    /\ pc' = "done"
    /\ UNCHANGED <<variant, nodes, i, conv_id, exchanges, idx, conversations_imported,
                   exchanges_imported, skipped, runs, start_nodes>>
    /\ UNCHANGED <<pairOnly, flatOnly>>

\* the script is started again after a run that ended normally: a new process
\* and a new connection, which sees what is committed
RunAgain ==
    /\ variant \in {"pairing", "flat"}
    /\ pc \in {"done", "aborted"}
    /\ runs < MaxRuns
    /\ runs' = runs + 1
    /\ pc' = "start"
    /\ nodes' = disk_nodes
    /\ edges' = disk_edges
    /\ start_nodes' = disk_nodes
    /\ start_edges' = disk_edges
    /\ i' = 0 /\ conv_id' = "" /\ exchanges' = <<>> /\ idx' = 0
    /\ conversations_imported' = 0 /\ exchanges_imported' = 0 /\ skipped' = 0
    /\ py_nodes' = <<>> /\ py_edges' = <<>> /\ k' = 0
    /\ UNCHANGED <<variant, conversations, disk_nodes, disk_edges>>
    /\ UNCHANGED pairOnly

----------------------------------------------------------------------------
(* Flat variant: import_conversations of import_test_data.py *)

\* a raw message as the flat variant reads it: sender and uuid
FlatShapes ==
    { [sender |-> "human", uuid |-> Some("m1")],
      [sender |-> "human", uuid |-> Some("a")],
      [sender |-> "human", uuid |-> NULL],
      [sender |-> "assistant", uuid |-> NULL] }

RECURSIVE SumTo(_, _)
SumTo(lens, c) == IF c = 0 THEN 0 ELSE lens[c] + SumTo(lens, c - 1)

\* the input whose c-th conversation has uuid uuids[c] and the next lens[c]
\* messages of msgs
FlatInput(uuids, lens, msgs) ==
    [c \in 1..Len(lens) |->
        [uuid |-> uuids[c],
         chat_messages |-> SubSeq(msgs, SumTo(lens, c - 1) + 1, SumTo(lens, c))]]

\* conversations is an input of at most MaxFlatConvos conversations and
\* MaxFlatMsgs messages in all
IsFlatInput ==
    \E n \in 0..MaxFlatConvos :
        \E lens \in [1..n -> 0..MaxFlatMsgs] :
            /\ SumTo(lens, n) <= MaxFlatMsgs
            /\ \E uuids \in [1..n -> Uuids] :
                   \E msgs \in [1..SumTo(lens, n) -> FlatShapes] :
                       conversations = FlatInput(uuids, lens, msgs)

\* what the database may hold before the first run: nothing, or an import
\* of some other file
OldFlatNodes ==
    { Row("a", "context", Some("old"), NULL, NULL, Some(3), NULL, 1, NULL, NULL, 0),
      Row("m1", "thought", Some("old"), Some([num |-> 0, den |-> 1]), NULL, Some(4),
          Some("a"), 0, NULL, NULL, 0),
      Row("z", "context", Some("old"), NULL, NULL, Some(3), NULL, 0, NULL, NULL, 0) }

\* uuid4() is modelled as a value no other edge has: the run and the position
EdgeRow(run, n, source_id, target_id) ==
    [id |-> <<run, n>>, source_id |-> source_id, target_id |-> target_id,
     type |-> "contains", run |-> run]

OldFlatEdges == <<EdgeRow(0, 1, "a", "m1")>>

\* child_count taken over all the messages
ChildCount_AllMessages(msgs) == Len(msgs)

\* line 98
ChildCount(msgs) == Cardinality({n \in 1..Len(msgs) : msgs[n].sender = "human"})

\* line 124: msg_angle, as a fraction of the full turn
MsgAngle(j, msgs) == [num |-> j, den |-> Max1(Len(msgs))]

\* lines 100-114
ConvNode(conv, run) ==
    Row(conv.uuid, "context", NULL, NULL, NULL, Some(3), NULL,
        ChildCount(conv.chat_messages), NULL, NULL, run)

\* lines 133-147
MsgNode(conv, j, msg_id, run) ==
    Row(msg_id, "thought", NULL, Some(MsgAngle(j, conv.chat_messages)), NULL, Some(4),
        Some(conv.uuid), 0, NULL, NULL, run)

\* lines 119-158: the message loop from index j (0-based); msg['uuid'] of a
\* human message without uuid is a KeyError
RECURSIVE FlatMessages(_, _, _, _, _)
FlatMessages(conv, j, ns, es, run) ==
    IF j >= Len(conv.chat_messages) THEN [raised |-> FALSE, nodes |-> ns, edges |-> es]
    ELSE LET msg == conv.chat_messages[j + 1]
         IN  IF msg.sender # "human" THEN FlatMessages(conv, j + 1, ns, es, run)
             ELSE IF msg.uuid = NULL THEN [raised |-> TRUE, nodes |-> ns, edges |-> es]
             ELSE FlatMessages(conv, j + 1,
                      Append(ns, MsgNode(conv, j, msg.uuid[1], run)),
                      Append(es, EdgeRow(run, Len(es) + 1, conv.uuid, msg.uuid[1])),
                      run)

pairingOnly == <<conv_id, exchanges, idx, conversations_imported, exchanges_imported,
                 skipped>>

\* the import without its two DELETEs
FlatClear_KeepsRows ==
    /\ variant = "flat"
    /\ pc = "start"
    /\ py_nodes' = <<>>
    /\ py_edges' = <<>>
    /\ i' = 0
    /\ k' = 0
    /\ pc' = "import"
    /\ UNCHANGED <<variant, conversations, nodes, edges, disk_nodes, disk_edges, runs,
                   start_nodes, start_edges>>
    /\ UNCHANGED <<pairOnly, pairingOnly>>

\* the two DELETEs committed at once, as executescript would
FlatClear_Commits ==
    /\ variant = "flat"
    /\ pc = "start"
    /\ edges' = <<>>
    /\ nodes' = {}
    /\ disk_edges' = <<>>
    /\ disk_nodes' = {}
    /\ py_nodes' = <<>>
    /\ py_edges' = <<>>
    /\ i' = 0
    /\ k' = 0
    /\ pc' = "import"
    /\ UNCHANGED <<variant, conversations, runs, start_nodes, start_edges>>
    /\ UNCHANGED <<pairOnly, pairingOnly>>

\* lines 78-87: DELETE FROM edges; DELETE FROM nodes (not yet committed)
FlatClear ==
    /\ variant = "flat"
    /\ pc = "start"
    /\ edges' = <<>>
    /\ nodes' = {}
    /\ py_nodes' = <<>>
    /\ py_edges' = <<>>
    /\ i' = 0
    /\ k' = 0
    /\ pc' = "import"
    /\ UNCHANGED <<variant, conversations, disk_nodes, disk_edges, runs, start_nodes,
                   start_edges>>
    /\ UNCHANGED <<pairOnly, pairingOnly>>

\* the conversation node appended after the nodes of its messages
FlatBuildConv_ChildrenFirst ==
    /\ variant = "flat"
    /\ pc = "import"
    /\ i < Len(conversations)
    /\ LET conv == conversations[i + 1]
           built == FlatMessages(conv, 0, py_nodes, py_edges, runs)
       IN  IF built.raised
           THEN /\ pc' = "error"
                /\ UNCHANGED <<py_nodes, py_edges, i>>
           ELSE /\ py_nodes' = Append(built.nodes, ConvNode(conv, runs))
                /\ py_edges' = built.edges
                /\ i' = i + 1
                /\ pc' = "import"
    /\ UNCHANGED <<variant, conversations, nodes, edges, disk_nodes, disk_edges, k,
                   runs, start_nodes, start_edges>>
    /\ UNCHANGED <<pairOnly, pairingOnly>>

\* lines 89-158: one conversation is turned into rows, in memory
FlatBuildConv ==
    /\ variant = "flat"
    /\ pc = "import"
    /\ i < Len(conversations)
    /\ LET conv == conversations[i + 1]
           built == FlatMessages(conv, 0, Append(py_nodes, ConvNode(conv, runs)),
                                 py_edges, runs)
       IN  IF built.raised
           THEN /\ pc' = "error"
                /\ UNCHANGED <<py_nodes, py_edges, i>>
           ELSE /\ py_nodes' = built.nodes
                /\ py_edges' = built.edges
                /\ i' = i + 1
                /\ pc' = "import"
    /\ UNCHANGED <<variant, conversations, nodes, edges, disk_nodes, disk_edges, k,
                   runs, start_nodes, start_edges>>
    /\ UNCHANGED <<pairOnly, pairingOnly>>

\* lines 161-164: executemany, one row
FlatInsertNode ==
    /\ variant = "flat"
    /\ pc = "import"
    /\ i = Len(conversations)
    /\ k < Len(py_nodes)
    /\ IF InsertRaises(nodes, py_nodes[k + 1])
       THEN /\ pc' = "error"
            /\ UNCHANGED <<nodes, k>>
       ELSE /\ nodes' = nodes \cup {py_nodes[k + 1]}
            /\ k' = k + 1
            /\ pc' = "import"
    /\ UNCHANGED <<variant, conversations, edges, disk_nodes, disk_edges, i, py_nodes,
                   py_edges, runs, start_nodes, start_edges>>
    /\ UNCHANGED <<pairOnly, pairingOnly>>

\* lines 167-170: executemany, one row
FlatInsertEdge ==
    /\ variant = "flat"
    /\ pc = "import"
    /\ i = Len(conversations)
    /\ k >= Len(py_nodes)
    /\ k < Len(py_nodes) + Len(py_edges)
    /\ edges' = Append(edges, py_edges[k - Len(py_nodes) + 1])
    /\ k' = k + 1
    /\ UNCHANGED <<variant, pc, conversations, nodes, disk_nodes, disk_edges, i,
                   py_nodes, py_edges, runs, start_nodes, start_edges>>
    /\ UNCHANGED <<pairOnly, pairingOnly>>

\* lines 172-173
FlatCommit ==
    /\ variant = "flat"
    /\ pc = "import"
    /\ i = Len(conversations)
    /\ k = Len(py_nodes) + Len(py_edges)
    /\ disk_nodes' = nodes
    /\ disk_edges' = edges
    /\ pc' = "done"
    /\ UNCHANGED <<variant, conversations, nodes, edges, i, py_nodes, py_edges, k,
                   runs, start_nodes, start_edges>>
    /\ UNCHANGED <<pairOnly, pairingOnly>>

InitFlat ==
    /\ variant = "flat"
    /\ pc = "start"
    /\ messages = <<>> /\ result = NoResult
    /\ IsFlatInput
    /\ \/ disk_nodes = {} /\ disk_edges = <<>>
       \/ disk_nodes = OldFlatNodes /\ disk_edges = OldFlatEdges
    /\ nodes = disk_nodes /\ start_nodes = disk_nodes
    /\ edges = disk_edges /\ start_edges = disk_edges
    /\ i = 0 /\ conv_id = "" /\ exchanges = <<>> /\ idx = 0
    /\ conversations_imported = 0 /\ exchanges_imported = 0 /\ skipped = 0
    /\ py_nodes = <<>> /\ py_edges = <<>> /\ k = 0
    /\ runs = 1

InitPairing ==
    /\ variant = "pairing"
    /\ pc = "start"
    /\ messages = <<>> /\ result = NoResult
    /\ conversations = <<>>
    /\ disk_nodes \in PairingPriors
    /\ nodes = disk_nodes /\ start_nodes = disk_nodes
    /\ edges = <<>> /\ disk_edges = <<>> /\ start_edges = <<>>
    /\ i = 0 /\ conv_id = "" /\ exchanges = <<>> /\ idx = 0
    /\ conversations_imported = 0 /\ exchanges_imported = 0 /\ skipped = 0
    /\ py_nodes = <<>> /\ py_edges = <<>> /\ k = 0
    /\ runs = 1

Init == InitPairing \/ InitFlat

Next ==
    \/ MainStart
    \/ LoopHead
    \/ InsertExchange
    \/ LoopTail
    \/ FinalCommit
    \/ FlatClear
    \/ FlatBuildConv
    \/ FlatInsertNode
    \/ FlatInsertEdge
    \/ FlatCommit
    \/ RunAgain

Spec == Init /\ [][Next]_vars

----------------------------------------------------------------------------
(* Properties of the two scripts *)

Linked(table) == {r \in table : r.conversation_id # NULL}

\* C2: pairing variant: a run that finds a row with a conversation_id in nodes
\* changes no row and imports no conversation.
C2_GuardLeavesTableAlone ==
    (variant = "pairing" /\ pc # "start" /\ Linked(start_nodes) # {}) =>
        /\ pc = "aborted"
        /\ nodes = start_nodes
        /\ disk_nodes = start_nodes
        /\ conversations_imported = 0

\* a second run, started after a first run that imported exchanges, has aborted
C2_Witness ==
    /\ variant = "pairing"
    /\ pc = "aborted"
    /\ runs = 2
    /\ \E r \in Linked(start_nodes) : r.run = 1

\* the human messages of an input: <<conversation, message>> positions
HumanSlots(convs) ==
    UNION { { <<c, n>> : n \in {m \in 1..Len(convs[c].chat_messages) :
                                  convs[c].chat_messages[m].sender = "human"} } :
            c \in 1..Len(convs) }

HumansOf(conv) ==
    {n \in 1..Len(conv.chat_messages) : conv.chat_messages[n].sender = "human"}

InputIds(convs) ==
    {convs[c].uuid : c \in 1..Len(convs)} \cup
    {convs[s[1]].chat_messages[s[2]].uuid[1] : s \in HumanSlots(convs)}

\* C3: flat variant: after a successful run no row from before the run is left
\* and the tables hold the rows of the input only: one node per conversation
\* and per human message, one edge per human message.  So the counts after a
\* second run on the same input are those after the first.
C3_FullReplace ==
    (variant = "flat" /\ pc = "done") =>
        /\ \A r \in disk_nodes : r.run = runs
        /\ \A n \in 1..Len(disk_edges) : disk_edges[n].run = runs
        /\ Ids(disk_nodes) = InputIds(conversations)
        /\ Cardinality(disk_nodes) =
               Len(conversations) + Cardinality(HumanSlots(conversations))
        /\ Len(disk_edges) = Cardinality(HumanSlots(conversations))

\* a second successful run over a database the first run filled
C3_Witness ==
    /\ variant = "flat"
    /\ pc = "done"
    /\ runs = 2
    /\ start_nodes # {}
    /\ Len(start_edges) > 0
    /\ Len(disk_edges) > 0

Refers(r) ==
    (IF r.conversation_id = NULL THEN {} ELSE {r.conversation_id[1]}) \cup
    (IF r.parent_id = NULL THEN {} ELSE {r.parent_id[1]})

NoDangling(table) ==
    \A r \in table : \A ref \in Refers(r) :
        \E c \in table : c.id = ref /\ c.type = "context" /\ c.run = r.run

EndpointsPresent(table, es) ==
    \A n \in 1..Len(es) : {es[n].source_id, es[n].target_id} \subseteq Ids(table)

\* C5: in every state of the tables, as the connection sees them and as
\* committed, the conversation an item node refers to is a container node of
\* the same run that is in nodes, and both ends of every edge are in nodes.
C5_NoDanglingReference ==
    /\ NoDangling(nodes)
    /\ NoDangling(disk_nodes)
    /\ EndpointsPresent(nodes, edges)
    /\ EndpointsPresent(disk_nodes, disk_edges)

\* the flat variant has inserted a message node and its edge, not yet committed
C5_Witness ==
    /\ variant = "flat"
    /\ pc = "import"
    /\ \E n \in 1..Len(edges) :
           /\ edges[n].run = runs
           /\ \E r \in nodes : r.id = edges[n].target_id /\ r.parent_id # NULL
    /\ disk_nodes # nodes

\* the pairing variant has committed exchange nodes of this run
C5_WitnessPairing ==
    /\ variant = "pairing"
    /\ \E r \in disk_nodes : r.conversation_id # NULL /\ r.run = runs

DistinctUuids(convs) ==
    \A c, d \in 1..Len(convs) : convs[c].uuid = convs[d].uuid => c = d

\* C6: flat variant: the child_count stored on a conversation node is the
\* number of its human messages, the number of message nodes with that
\* parent and the number of edges from it; other senders leave no row.  This
\* holds of the stored rows and, for conversations of distinct uuids, of the
\* rows emitted before the inserts.
C6_ChildCountIsHumanCount ==
    /\ (variant = "flat" /\ pc = "done") =>
          \A c \in 1..Len(conversations) :
              LET conv == conversations[c]
                  humans == Cardinality(HumansOf(conv))
              IN  /\ \E r \in disk_nodes : r.id = conv.uuid /\ r.child_count = humans
                  /\ Cardinality({r \in disk_nodes : r.parent_id = Some(conv.uuid)}) = humans
                  /\ Cardinality({n \in 1..Len(disk_edges) :
                                     disk_edges[n].source_id = conv.uuid}) = humans
    /\ (variant = "flat" /\ pc # "start" /\ i = Len(conversations)
            /\ DistinctUuids(conversations)) =>
          \A c \in 1..Len(conversations) :
              LET conv == conversations[c]
                  humans == Cardinality(HumansOf(conv))
              IN  /\ \E n \in 1..Len(py_nodes) :
                         /\ py_nodes[n].id = conv.uuid
                         /\ py_nodes[n].type = "context"
                         /\ py_nodes[n].child_count = humans
                  /\ Cardinality({n \in 1..Len(py_nodes) :
                                     py_nodes[n].parent_id = Some(conv.uuid)}) = humans
                  /\ Cardinality({n \in 1..Len(py_edges) :
                                     py_edges[n].source_id = conv.uuid}) = humans

\* a stored conversation with a human message and a message of another sender
C6_Witness ==
    /\ variant = "flat"
    /\ pc = "done"
    /\ \E c \in 1..Len(conversations) :
           /\ HumansOf(conversations[c]) # {}
           /\ Cardinality(HumansOf(conversations[c])) < Len(conversations[c].chat_messages)

\* the children of a container row, by either reference
ChildrenOf(table, c) ==
    {r \in table : c.id \in Refers(r) /\ r.run = c.run}

\* the rank of a child among its siblings, in the order they were emitted
Rank(siblings, r) == Cardinality({q \in siblings : q.angle[1].num < r.angle[1].num})

EvenlySpread(table) ==
    \A c \in {r \in table : r.type = "context"} :
        LET siblings == ChildrenOf(table, c)
            m == Cardinality(siblings)
        IN  \A r \in siblings :
                r.angle[1].num * m = Rank(siblings, r) * r.angle[1].den

\* C7: in both variants the j-th of the m children emitted for a conversation
\* is at angle 2*pi*j/m, whatever the senders of the messages.
C7_ChildrenEvenlySpread ==
    (variant \in {"pairing", "flat"} /\ pc = "done") => EvenlySpread(disk_nodes)

\* the same, for the pairing variant alone
PairingChildrenEvenlySpread ==
    (variant = "pairing" /\ pc = "done") => EvenlySpread(disk_nodes)

\* C8: pairing variant: each time the number of conversations processed
\* (inserted or skipped) reaches a multiple of 50, everything inserted so far
\* is committed.
C8_CommitAtEveryFiftieth ==
    (variant = "pairing" /\ pc = "loop" /\ i > 0 /\ i % CommitEvery = 0) =>
        disk_nodes = nodes

\* the same, when the fiftieth conversation was imported rather than skipped
CommitWhenFiftiethImported ==
    [][(variant = "pairing" /\ pc = "exchanges" /\ pc' = "loop" /\ i' % CommitEvery = 0)
          => disk_nodes' = nodes']_vars

\* C9: pairing variant, past the guard: every input conversation is imported
\* or skipped, so the two counters add up to the number of conversations
\* taken from the input; none is left unaccounted for.
C9_EveryConversationCounted ==
    (variant = "pairing" /\ pc \notin {"start", "aborted"}) =>
        /\ pc # "error"
        /\ conversations_imported + skipped =
               i + (IF pc \in {"exchanges", "tail"} THEN 1 ELSE 0)

\* the counters of the runs that do not fail
CountersAddUp ==
    (variant = "pairing" /\ pc \in {"loop", "exchanges", "tail", "commit", "done"}) =>
        conversations_imported + skipped =
            i + (IF pc \in {"exchanges", "tail"} THEN 1 ELSE 0)

\* a conversation is skipped exactly when its id is in nodes, and a skipped
\* conversation adds no row
SkipExactlyWhenPresent ==
    [][(variant = "pairing" /\ pc = "loop" /\ pc' # "done") =>
          /\ (skipped' = skipped + 1) <=> (conv_id' \in Ids(nodes) /\ pc' = "loop")
          /\ (skipped' = skipped + 1) => nodes' = nodes]_vars

\* C10: flat variant: until the commit at the end of import_conversations the
\* committed tables are those the run found; a run that fails leaves them so.
C10_AllOrNothing ==
    (variant = "flat" /\ pc # "done") =>
        /\ disk_nodes = start_nodes
        /\ disk_edges = start_edges

\* a run over a filled database failed on a primary key after some inserts
C10_Witness ==
    /\ variant = "flat"
    /\ pc = "error"
    /\ start_nodes # {}
    /\ k > 0
    /\ nodes # start_nodes

====
